---- MODULE Spec2Model ----
(***************************************************************************)
(* Model of fastembed-rs `TextEmbedding` (src/src/text_embedding.rs):      *)
(* `transform` fans a list of texts out in chunks over a rayon parallel    *)
(* iterator (tokenize, build tensors, run the ONNX session), collects the  *)
(* per-chunk `SingleBatchOutput`s in order, and `embed` turns them into    *)
(* embeddings with `output::transformer_with_precedence`.                  *)
(*                                                                         *)
(* Numbers.  The session outputs are f32 tensors.  The stub engine below   *)
(* only produces integer multiples of Scale, so that every masked mean is  *)
(* an exact integer, and a normalised vector v/|v| is represented exactly  *)
(* by the pair (primitive integer vector of the direction of v, its        *)
(* squared length): [num |-> p, den2 |-> p.p] stands for p / sqrt(p.p).    *)
(***************************************************************************)
EXTENDS Integers, Sequences, FiniteSets, TLC

\* ------------------------------------------------------------------ bounds
\* Longest input list.
MaxN == 3
\* Longest token sequence of a text; also the tokenizer's max_length.
MaxLength == 3

\* text_embedding.rs:27
DEFAULT_BATCH_SIZE == 256

\* ------------------------------------------------------------- small helpers
Min(a, b) == IF a <= b THEN a ELSE b

Max(a, b) == IF a >= b THEN a ELSE b

RECURSIVE SumSeq(_)
SumSeq(s) == IF s = <<>> THEN 0 ELSE s[1] + SumSeq(Tail(s))

RECURSIVE Flatten(_)
\* `Vec::extend` applied encoding after encoding (lines 340-350).
Flatten(ss) == IF ss = <<>> THEN <<>> ELSE ss[1] \o Flatten(Tail(ss))

RECURSIVE Gcd(_, _)
Gcd(a, b) == IF b = 0 THEN a ELSE Gcd(b, a % b)

RECURSIVE GcdSeq(_)
GcdSeq(s) == IF s = <<>> THEN 0 ELSE Gcd(s[1], GcdSeq(Tail(s)))

RECURSIVE LcmUpTo(_)
LcmUpTo(n) == IF n <= 1 THEN 1 ELSE (LcmUpTo(n - 1) * n) \div Gcd(LcmUpTo(n - 1), n)

\* Every value the stub engine emits is a multiple of Scale, which every
\* possible number of unmasked tokens divides.
Scale == LcmUpTo(MaxLength)

\* ------------------------------------------------- configuration domains
\* A text is identified by the number w of tokens it encodes to; each of its
\* tokens has id w, so different texts give different rows.
TextValues == 1..MaxLength

\* Padding configured in `self.tokenizer` (a public field): pad to
\* max_length, pad to the longest of the batch, or no padding at all.
Paddings == {"Fixed", "BatchLongest", "NoPadding"}

\* pooling: Option<Pooling>
Poolings == {"Absent", "Cls", "Mean"}

\* Graph outputs (name -> rank) of the loaded model.
OutputDecls ==
    { "last_hidden_state" :> 3,
      "sentence_embedding" :> 2,
      ("last_hidden_state" :> 3) @@ ("sentence_embedding" :> 2),
      ("token_embeddings" :> 3) @@ ("sentence_embedding" :> 2),
      "logits" :> 4,
      ("token_embeddings" :> 3) @@ ("pooler_output" :> 2) }

\* Graph inputs of the loaded model (session.inputs).
InputDecls ==
    { {"input_ids", "attention_mask"},
      {"input_ids", "attention_mask", "token_type_ids"} }

\* batch_size: Option<usize>, None as <<>> and Some(n) as <<n>>
BatchSizeOptions == {<<>>} \cup {<<n>> : n \in 0..MaxN}

\* ------------------------------------------------------------- tokenizer
\* One Encoding: w real tokens (id w, mask 1, type 0), padded with id 0 /
\* mask 0 up to len.  No text is longer than max_length, so truncation
\* never applies.
Encoding(w, len) ==
    [ ids            |-> [i \in 1..len |-> IF i <= w THEN w ELSE 0],
      attention_mask |-> [i \in 1..len |-> IF i <= w THEN 1 ELSE 0],
      type_ids       |-> [i \in 1..len |-> 0] ]

RECURSIVE MaxSeq(_)
MaxSeq(s) == IF s = <<>> THEN 0 ELSE Max(s[1], MaxSeq(Tail(s)))

\* tokenizer.encode_batch(inputs, true) on success.
EncodeBatch(batch, pad) ==
    [ i \in 1..Len(batch) |->
        Encoding(batch[i],
                 CASE pad = "Fixed"        -> MaxLength
                   [] pad = "BatchLongest" -> MaxSeq(batch)
                   [] OTHER                -> batch[i]) ]

\* ---------------------------------------------------------- tensor builder
\* ndarray `Array::from_shape_vec((rows, cols), v)`: a ShapeError unless v
\* holds exactly rows * cols elements; otherwise row-major rows.
FromShapeVec(rows, cols, v) ==
    IF Len(v) = rows * cols
    THEN [ ok |-> TRUE,
           rows |-> [r \in 1..rows |-> SubSeq(v, (r - 1) * cols + 1, r * cols)] ]
    ELSE [ ok |-> FALSE, rows |-> <<>> ]

\* Lines 328-360 of `transform`: the three (batch_size, encoding_length)
\* arrays of a chunk, or the ShapeError the first failing `?` returns.
BuildTensors(batch, encodings) ==
    LET encoding_length == Len(encodings[1].ids)
        batch_size      == Len(batch)
        ids_array     == Flatten([i \in 1..Len(encodings) |-> encodings[i].ids])
        mask_array    == Flatten([i \in 1..Len(encodings) |-> encodings[i].attention_mask])
        typeids_array == Flatten([i \in 1..Len(encodings) |-> encodings[i].type_ids])
        inputs_ids_array     == FromShapeVec(batch_size, encoding_length, ids_array)
        attention_mask_array == FromShapeVec(batch_size, encoding_length, mask_array)
        token_type_ids_array == FromShapeVec(batch_size, encoding_length, typeids_array)
    IN  IF inputs_ids_array.ok /\ attention_mask_array.ok /\ token_type_ids_array.ok
        THEN [ ok |-> TRUE,
               input_ids      |-> inputs_ids_array.rows,
               attention_mask |-> attention_mask_array.rows,
               token_type_ids |-> token_type_ids_array.rows ]
        ELSE [ ok |-> FALSE,
               input_ids |-> <<>>, attention_mask |-> <<>>, token_type_ids |-> <<>> ]

\* Faulty variant of SessionInputNames: token_type_ids pushed whatever the graph declares.
SessionInputNamesAlways(need) == {"input_ids", "attention_mask", "token_type_ids"}

\* Lines 362-372: the names of the inputs handed to `session.run`.
SessionInputNames(need) ==
    {"input_ids", "attention_mask"} \cup (IF need THEN {"token_type_ids"} ELSE {})

\* Lines 247-250 of `new`.
NeedTokenTypeIds(inputs) == \E input \in inputs : input = "token_type_ids"

\* ------------------------------------------------- inference engine (stub)
OutCode(name) ==
    CASE name = "last_hidden_state"  -> 1
      [] name = "sentence_embedding" -> 2
      [] name = "token_embeddings"   -> 3
      [] name = "pooler_output"      -> 4
      [] OTHER                       -> 5

\* The hidden vector the stub engine emits for output `name`, input row
\* `row` and token position t (t = 0 for an already pooled output).  It is a
\* function of the input row alone and tells rows, row lengths, token
\* positions and outputs apart.
HiddenVec(name, row, t) ==
    << Scale, Scale * SumSeq(row), Scale * Len(row), Scale * t, Scale * OutCode(name) >>

OutputTensor(name, rank, input_ids) ==
    [ rank |-> rank,
      data |-> [ r \in 1..Len(input_ids) |->
                   CASE rank = 2 -> HiddenVec(name, input_ids[r], 0)
                     [] rank = 3 -> [t \in 1..Len(input_ids[r]) |->
                                        HiddenVec(name, input_ids[r], t)]
                     [] OTHER    -> << [t \in 1..Len(input_ids[r]) |->
                                        HiddenVec(name, input_ids[r], t)] >> ] ]

\* session.run(session_inputs) on success: every declared output, for the
\* rows of the chunk.
SessionRun(decl, input_ids) ==
    [ name \in DOMAIN decl |-> OutputTensor(name, decl[name], input_ids) ]

\* ---------------------------------------------------- output key resolver
OnlyOne == [kind |-> "OnlyOne", name |-> ""]

ByName(n) == [kind |-> "ByName", name |-> n]

\* Faulty variant of OUTPUT_TYPE_PRECENDENCE: the two names the other way round.
SentenceEmbeddingFirst ==
    << OnlyOne, ByName("sentence_embedding"), ByName("last_hidden_state") >>

\* output::OUTPUT_TYPE_PRECENDENCE, lines 100-106.
OUTPUT_TYPE_PRECENDENCE ==
    << OnlyOne, ByName("last_hidden_state"), ByName("sentence_embedding") >>

\* Whether an output key matches the named outputs of a batch.
KeyMatches(key, outputs) ==
    IF key.kind = "OnlyOne"
    THEN Cardinality(DOMAIN outputs) = 1
    ELSE key.name \in DOMAIN outputs

\* The name a matching key selects.
KeySelects(key, outputs) ==
    IF key.kind = "OnlyOne" THEN CHOOSE n \in DOMAIN outputs : TRUE ELSE key.name

\* SingleBatchOutput::select_output: the first key of the precedence list
\* that matches, or no output at all.
SelectOutput(outputs, precedence) ==
    LET hits == {i \in DOMAIN precedence : KeyMatches(precedence[i], outputs)}
    IN  IF hits = {}
        THEN [ok |-> FALSE, name |-> ""]
        ELSE LET first == CHOOSE i \in hits : \A j \in hits : i <= j
             IN  [ok |-> TRUE, name |-> KeySelects(precedence[first], outputs)]

\* ---------------------------------------------------------- pooling engine
\* pooling::cls: token index 0 of every row.
PoolCls(tensor) ==
    [rank |-> 2, data |-> [r \in DOMAIN tensor.data |-> tensor.data[r][1]]]

\* pooling::mean: the mean of the token vectors at the positions whose mask
\* is 1 (a row whose mask is all zero keeps the zero sum).
PoolMean(tensor, mask) ==
    [ rank |-> 2,
      data |-> [ r \in DOMAIN tensor.data |->
                   LET toks == tensor.data[r]
                       cnt  == SumSeq(mask[r])
                   IN  [ c \in DOMAIN toks[1] |->
                           LET total == SumSeq([t \in DOMAIN toks |-> mask[r][t] * toks[t][c]])
                           IN  IF cnt = 0 THEN total ELSE total \div cnt ] ] ]

\* SingleBatchOutput::select_and_pool_output: the selected tensor, pooled
\* along the token axis when a pooling mode is given.  Without a mode the
\* selected tensor is handed on as it is and the caller dispatches on rank.
SelectAndPoolOutput(batch, precedence, pooling) ==
    LET sel == SelectOutput(batch.session_outputs, precedence)
    IN  IF ~sel.ok
        THEN [ok |-> FALSE, err |-> "OutputNotFoundError", tensor |-> <<>>]
        ELSE LET tensor == batch.session_outputs[sel.name]
             IN  CASE pooling = "Absent" \/ tensor.rank = 2 ->
                        [ok |-> TRUE, err |-> "", tensor |-> tensor]
                   [] tensor.rank = 3 /\ pooling = "Cls" ->
                        [ok |-> TRUE, err |-> "", tensor |-> PoolCls(tensor)]
                   [] tensor.rank = 3 /\ pooling = "Mean" ->
                        [ok |-> TRUE, err |-> "",
                         tensor |-> PoolMean(tensor, batch.attention_mask_array)]
                   [] OTHER ->
                        [ok |-> FALSE, err |-> "UnsupportedShapeError", tensor |-> <<>>]

\* -------------------------------------------------------------- normalizer
\* common::normalize: v / |v|.  The unit vector of an integer vector v is
\* p / sqrt(p.p) for the primitive vector p = v / gcd(v); a zero vector is
\* returned unchanged.
Normalize(v) ==
    LET g == GcdSeq(v)
        p == IF g = 0 THEN v ELSE [i \in DOMAIN v |-> v[i] \div g]
    IN  [num |-> p, den2 |-> IF g = 0 THEN 1 ELSE SumSeq([i \in DOMAIN p |-> p[i] * p[i]])]

\* ------------------------------------------------------------- transformer
\* Faulty variant of BatchEmbeddings: the 3D branch slices the last token, not token 0.
BatchEmbeddingsLastToken(batch, precedence, pooling) ==
    LET pooled == SelectAndPoolOutput(batch, precedence, pooling)
    IN  IF ~pooled.ok
        THEN [kind |-> "err", err |-> pooled.err, val |-> <<>>]
        ELSE LET array == pooled.tensor
             IN  CASE array.rank = 2 ->
                        [kind |-> "ok", err |-> "",
                         val |-> [r \in DOMAIN array.data |-> Normalize(array.data[r])]]
                   [] array.rank = 3 ->
                        [kind |-> "ok", err |-> "",
                         val |-> [r \in DOMAIN array.data |->
                                    Normalize(array.data[r][Len(array.data[r])])]]
                   [] OTHER ->
                        [kind |-> "err", err |-> "InvalidOutputShape", val |-> <<>>]

\* Faulty variant of BatchEmbeddings: every row of the batch gets the first row's vector.
BatchEmbeddingsFirstRow(batch, precedence, pooling) ==
    LET pooled == SelectAndPoolOutput(batch, precedence, pooling)
    IN  IF ~pooled.ok
        THEN [kind |-> "err", err |-> pooled.err, val |-> <<>>]
        ELSE LET array == pooled.tensor
             IN  CASE array.rank = 2 ->
                        [kind |-> "ok", err |-> "",
                         val |-> [r \in DOMAIN array.data |-> Normalize(array.data[1])]]
                   [] array.rank = 3 ->
                        [kind |-> "ok", err |-> "",
                         val |-> [r \in DOMAIN array.data |-> Normalize(array.data[1][1])]]
                   [] OTHER ->
                        [kind |-> "err", err |-> "InvalidOutputShape", val |-> <<>>]

\* Lines 120-142: the closure applied to one batch.
BatchEmbeddings(batch, precedence, pooling) ==
    LET pooled == SelectAndPoolOutput(batch, precedence, pooling)
    IN  IF ~pooled.ok
        THEN [kind |-> "err", err |-> pooled.err, val |-> <<>>]
        ELSE LET array == pooled.tensor
             IN  CASE array.rank = 2 ->
                        [kind |-> "ok", err |-> "",
                         val |-> [r \in DOMAIN array.data |-> Normalize(array.data[r])]]
                   [] array.rank = 3 ->
                        [kind |-> "ok", err |-> "",
                         val |-> [r \in DOMAIN array.data |-> Normalize(array.data[r][1])]]
                   [] OTHER ->
                        [kind |-> "err", err |-> "InvalidOutputShape", val |-> <<>>]

RECURSIVE TryFoldSkipping(_, _, _, _)
\* Faulty variant of TryFold: a failing batch is left out and the fold goes on.
TryFoldSkipping(acc, batches, precedence, pooling) ==
    IF batches = <<>>
    THEN [kind |-> "ok", err |-> "", val |-> acc]
    ELSE LET res == BatchEmbeddings(batches[1], precedence, pooling)
         IN  TryFoldSkipping(IF res.kind = "ok" THEN acc \o res.val ELSE acc,
                             Tail(batches), precedence, pooling)

RECURSIVE TryFold(_, _, _, _)
\* Lines 143-146: `try_fold` over the lazily mapped batches, in order; the
\* first failing batch ends the fold with its error.
TryFold(acc, batches, precedence, pooling) ==
    IF batches = <<>>
    THEN [kind |-> "ok", err |-> "", val |-> acc]
    ELSE LET res == BatchEmbeddings(batches[1], precedence, pooling)
         IN  IF res.kind # "ok"
             THEN res
             ELSE TryFold(acc \o res.val, Tail(batches), precedence, pooling)

\* output::transformer_with_precedence(output_precedence, pooling)(batches).
TransformerWithPrecedence(precedence, pooling, batches) ==
    TryFold(<<>>, batches, precedence, pooling)

\* ----------------------------------------------------------- batch planner
RECURSIVE ChunksExact(_, _)
\* Faulty variant of Chunks: `par_chunks_exact`, which leaves a shorter last chunk out.
ChunksExact(s, size) ==
    IF Len(s) < size
    THEN <<>>
    ELSE <<SubSeq(s, 1, size)>> \o ChunksExact(SubSeq(s, size + 1, Len(s)), size)

RECURSIVE ChunksRemainder(_, _)
\* Faulty variant of Chunks: the remainder is always a chunk, even when it is empty.
ChunksRemainder(s, size) ==
    IF Len(s) <= size
    THEN <<s>>
    ELSE <<SubSeq(s, 1, size)>> \o ChunksRemainder(SubSeq(s, size + 1, Len(s)), size)

RECURSIVE Chunks(_, _)
\* rayon `par_chunks(chunk_size)` on a slice, chunk_size >= 1: consecutive
\* slices of chunk_size elements, the last one possibly shorter.
Chunks(s, size) ==
    IF s = <<>>
    THEN <<>>
    ELSE <<SubSeq(s, 1, Min(size, Len(s)))>>
            \o Chunks(SubSeq(s, Min(size, Len(s)) + 1, Len(s)), size)

\* Line 320.
EffectiveBatchSize(batch_size) ==
    IF batch_size = <<>> THEN DEFAULT_BATCH_SIZE ELSE batch_size[1]

\* ------------------------------------------------------------------- state
VARIABLES
    texts,                \* the caller's Vec<S>, fixed over the calls modelled
    padding,              \* padding configured in self.tokenizer
    pooling,              \* self.pooling
    outputDecl,           \* graph outputs of self.session (name -> rank)
    sessionInputs,        \* graph inputs of self.session
    need_token_type_ids,  \* self.need_token_type_ids
    plan,                 \* the batch_size arguments of the calls the caller still makes
    phase,                \* "idle", "running", "joined" (transform returned Ok), "done"
    batch_size,           \* the call's batch_size argument
    chunks,               \* par_chunks: the chunks, as sequences of positions of texts
    pc,                   \* per chunk: the closure's position
    failure,              \* per chunk: the error its closure returned
    encodings,            \* per chunk: encode_batch's result
    tensors,              \* per chunk: the three arrays
    batchOutput,          \* per chunk: the SingleBatchOutput
    tokenizerCalls,       \* per chunk: encode_batch calls made
    sessionCalls,         \* per chunk: the input names of each session.run made
    finishOrder,          \* chunks in the order their session.run returned Ok
    transformResult,      \* what transform returned
    embedResult,          \* what embed returned
    prev                  \* the previous call: its batch_size and embed's result

config == <<texts, padding, pooling, outputDecl, sessionInputs, need_token_type_ids>>

workers == <<pc, failure, encodings, tensors, batchOutput, tokenizerCalls,
             sessionCalls, finishOrder>>

vars == <<config, plan, phase, batch_size, chunks, workers,
          transformResult, embedResult, prev>>

NoResult == [kind |-> "none", err |-> "", val |-> <<>>]

NoCall == [batch_size |-> <<>>, made |-> FALSE, result |-> NoResult]

Panicked == [kind |-> "panic", err |-> "", val |-> <<>>]

Failed(e) == [kind |-> "err", err |-> e, val |-> <<>>]

Succeeded(v) == [kind |-> "ok", err |-> "", val |-> v]

NumChunks == Len(chunks)

\* The text values of chunk k.
ChunkTexts(k) == [i \in 1..Len(chunks[k]) |-> texts[chunks[k][i]]]

\* lists of at most MaxN texts
TextLists == UNION {[1..n -> TextValues] : n \in 0..MaxN}

\* TextEmbedding::new (lines 246-257) on a loaded session and tokenizer.
Constructed ==
    /\ padding \in Paddings
    /\ pooling \in Poolings
    /\ outputDecl \in OutputDecls
    /\ sessionInputs \in InputDecls
    /\ need_token_type_ids = NeedTokenTypeIds(sessionInputs)

\* No call made yet.
NoCallYet ==
    /\ phase = "idle"
    /\ batch_size = <<>>
    /\ chunks = <<>>
    /\ pc = <<>>
    /\ failure = <<>>
    /\ encodings = <<>>
    /\ tensors = <<>>
    /\ batchOutput = <<>>
    /\ tokenizerCalls = <<>>
    /\ sessionCalls = <<>>
    /\ finishOrder = <<>>
    /\ transformResult = NoResult
    /\ embedResult = NoResult
    /\ prev = NoCall

\* A constructed instance and a caller about to make one call of embed, with
\* any list of texts and any batch_size.
Init ==
    /\ texts \in TextLists
    /\ Constructed
    /\ plan \in {<<bs>> : bs \in BatchSizeOptions}
    /\ NoCallYet

\* The caller enters embed(texts, bs) with the next batch_size of its plan,
\* keeping the result of the call before, and transform reaches `par_chunks`
\* (lines 320-323).  rayon's par_chunks panics on a chunk size of zero.
StartCall ==
    /\ phase \in {"idle", "done"}
    /\ plan # <<>>
    /\ plan' = Tail(plan)
    /\ batch_size' = Head(plan)
    /\ prev' = IF phase = "done"
               THEN [batch_size |-> batch_size, made |-> TRUE, result |-> embedResult]
               ELSE prev
    /\ IF EffectiveBatchSize(Head(plan)) = 0
       THEN /\ phase' = "done"
            /\ chunks' = <<>>
            /\ transformResult' = Panicked
            /\ embedResult' = Panicked
       ELSE /\ phase' = "running"
            /\ chunks' = Chunks([i \in 1..Len(texts) |-> i], EffectiveBatchSize(Head(plan)))
            /\ transformResult' = NoResult
            /\ embedResult' = NoResult
    /\ pc' = [k \in 1..Len(chunks') |-> "todo"]
    /\ failure' = [k \in 1..Len(chunks') |-> ""]
    /\ encodings' = [k \in 1..Len(chunks') |-> <<>>]
    /\ tensors' = [k \in 1..Len(chunks') |-> <<>>]
    /\ batchOutput' = [k \in 1..Len(chunks') |-> <<>>]
    /\ tokenizerCalls' = [k \in 1..Len(chunks') |-> 0]
    /\ sessionCalls' = [k \in 1..Len(chunks') |-> <<>>]
    /\ finishOrder' = <<>>
    /\ UNCHANGED config

\* Lines 325-326 in the worker of chunk k: encode_batch(inputs, true).unwrap().
\* A tokenizer error makes the unwrap panic.
Tokenize(k) ==
    /\ phase = "running"
    /\ k \in 1..NumChunks
    /\ pc[k] = "todo"
    /\ tokenizerCalls' = [tokenizerCalls EXCEPT ![k] = @ + 1]
    /\ \E encoded \in BOOLEAN :
         IF encoded
         THEN /\ encodings' = [encodings EXCEPT ![k] = EncodeBatch(ChunkTexts(k), padding)]
              /\ pc' = [pc EXCEPT ![k] = "encoded"]
         ELSE /\ encodings' = encodings
              /\ pc' = [pc EXCEPT ![k] = "panicked"]
    /\ UNCHANGED <<config, plan, phase, batch_size, chunks, failure, tensors,
                   batchOutput, sessionCalls, finishOrder, transformResult,
                   embedResult, prev>>

\* Lines 328-360 in the worker of chunk k.
Build(k) ==
    /\ phase = "running"
    /\ k \in 1..NumChunks
    /\ pc[k] = "encoded"
    /\ LET built == BuildTensors(ChunkTexts(k), encodings[k])
       IN  IF built.ok
           THEN /\ tensors' = [tensors EXCEPT ![k] = built]
                /\ pc' = [pc EXCEPT ![k] = "built"]
                /\ failure' = failure
           ELSE /\ tensors' = tensors
                /\ pc' = [pc EXCEPT ![k] = "failed"]
                /\ failure' = [failure EXCEPT ![k] = "ShapeError"]
    /\ UNCHANGED <<config, plan, phase, batch_size, chunks, encodings,
                   batchOutput, tokenizerCalls, sessionCalls, finishOrder,
                   transformResult, embedResult, prev>>

\* Lines 362-384 in the worker of chunk k: the session inputs, session.run
\* and, when it succeeds, the SingleBatchOutput.
Run(k) ==
    /\ phase = "running"
    /\ k \in 1..NumChunks
    /\ pc[k] = "built"
    /\ sessionCalls' = [sessionCalls EXCEPT
                          ![k] = Append(@, SessionInputNames(need_token_type_ids))]
    /\ \E ran \in BOOLEAN :
         IF ran
         THEN /\ batchOutput' = [batchOutput EXCEPT ![k] =
                    [ session_outputs      |-> SessionRun(outputDecl, tensors[k].input_ids),
                      attention_mask_array |-> tensors[k].attention_mask ]]
              /\ pc' = [pc EXCEPT ![k] = "done"]
              /\ failure' = failure
              /\ finishOrder' = Append(finishOrder, k)
         ELSE /\ batchOutput' = batchOutput
              /\ pc' = [pc EXCEPT ![k] = "failed"]
              /\ failure' = [failure EXCEPT ![k] = "InferenceError"]
              /\ finishOrder' = finishOrder
    /\ UNCHANGED <<config, plan, phase, batch_size, chunks, encodings, tensors,
                   tokenizerCalls, transformResult, embedResult, prev>>

PanickedChunks == {k \in 1..NumChunks : pc[k] = "panicked"}

FailedChunks == {k \in 1..NumChunks : pc[k] = "failed"}

\* No closure is in flight; a chunk not yet started may be left out once
\* another chunk has failed (rayon stops handing out items then).
Settled ==
    \A k \in 1..NumChunks :
        \/ pc[k] \in {"done", "failed", "panicked"}
        \/ pc[k] = "todo" /\ (PanickedChunks \cup FailedChunks) # {}

\* Faulty variant of CollectInOrder: the items in the order the workers finished.
CollectInFinishOrder(outs, order) == [k \in 1..Len(order) |-> outs[order[k]]]

\* `Result<Vec<_>>::from_par_iter` over the indexed parallel iterator (line
\* 323): the items at their chunks' positions.
CollectInOrder(outs, order) == [k \in 1..Len(outs) |-> outs[k]]

\* Line 385-387 and, in embed, line 406: the parallel iterator is joined.  A
\* panic of a worker is resumed in the caller; otherwise an error one of the
\* closures returned, or all the batches in chunk order.
Join ==
    /\ phase = "running"
    /\ Settled
    /\ IF PanickedChunks # {}
       THEN /\ transformResult' = Panicked
            /\ embedResult' = Panicked
            /\ phase' = "done"
       ELSE IF FailedChunks # {}
       THEN /\ \E k \in FailedChunks : transformResult' = Failed(failure[k])
            /\ embedResult' = transformResult'
            /\ phase' = "done"
       ELSE /\ transformResult' = Succeeded(CollectInOrder(batchOutput, finishOrder))
            /\ embedResult' = embedResult
            /\ phase' = "joined"
    /\ UNCHANGED <<config, plan, batch_size, chunks, workers, prev>>

\* embed, lines 408-411: export_with_transformer with the default precedence
\* and self.pooling.
Export ==
    /\ phase = "joined"
    /\ embedResult' = TransformerWithPrecedence(OUTPUT_TYPE_PRECENDENCE, pooling,
                                                transformResult.val)
    /\ phase' = "done"
    /\ UNCHANGED <<config, plan, batch_size, chunks, workers, transformResult, prev>>

Next ==
    \/ StartCall
    \/ \E k \in 1..NumChunks : Tokenize(k)
    \/ \E k \in 1..NumChunks : Build(k)
    \/ \E k \in 1..NumChunks : Run(k)
    \/ Join
    \/ Export

\* One call of embed, with any batch_size.
Spec == Init /\ [][Next]_vars

\* A caller about to make embed(texts, Some(1)) and then
\* embed(texts, Some(texts.len())) on the same instance, for a non-empty
\* list of texts and a tokenizer that pads every sequence to max_length.
InitPair ==
    /\ texts \in TextLists \ {<<>>}
    /\ Constructed
    /\ padding = "Fixed"
    /\ plan = << <<1>>, <<Len(texts)>> >>
    /\ NoCallYet

SpecPair == InitPair /\ [][Next]_vars

\* ------------------------------------------------------------------ claims
\* embed has returned Ok.
EmbedOk == phase = "done" /\ embedResult.kind = "ok"

\* The batch size transform works with, and the number of texts.
B == EffectiveBatchSize(batch_size)

N == Len(texts)

Range(s) == {s[i] : i \in DOMAIN s}

\* Every chunk tokenized so far got encodings of one length (the Encoded
\* Sequence invariant of the data model).
EqualLengths(k) ==
    \A i, j \in DOMAIN encodings[k] : Len(encodings[k][i].ids) = Len(encodings[k][j].ids)

\* The embedding computed from the text at position i alone: its encoding,
\* at the length its chunk was padded to, run through the engine, the output
\* selection, the pooling and the normalizer as a batch of one row.
EmbeddingOf(i) ==
    LET k   == CHOOSE c \in 1..NumChunks : i \in Range(chunks[c])
        enc == Encoding(texts[i], Len(encodings[k][1].ids))
        one == [ session_outputs      |-> SessionRun(outputDecl, <<enc.ids>>),
                 attention_mask_array |-> <<enc.attention_mask>> ]
    IN  BatchEmbeddings(one, OUTPUT_TYPE_PRECENDENCE, pooling).val[1]

\* C1: whenever embed(texts, B) with B >= 1 has returned Ok (the tokenizer
\* having given every chunk encodings of one length), it returned exactly N
\* embeddings and the one at position i is the embedding computed from
\* texts[i], whatever B was and in whatever order the workers finished.
C1_OrderPreserved ==
    (EmbedOk /\ B >= 1 /\ \A k \in 1..NumChunks : EqualLengths(k))
        => /\ Len(embedResult.val) = N
           /\ \A i \in 1..N : embedResult.val[i] = EmbeddingOf(i)

\* A successful call over several chunks of different texts whose workers
\* finished out of input order.
C1_Witness ==
    /\ EmbedOk
    /\ NumChunks >= 2
    /\ finishOrder[1] > finishOrder[2]
    /\ texts[1] # texts[N]
    /\ \A k \in 1..NumChunks : EqualLengths(k)

\* C6: a call with an empty text list (batch size absent or >= 1) makes no
\* chunk, no tokenizer call and no inference call, and once transform / embed
\* have returned they returned Ok with an empty result.
C6_EmptyInput ==
    (texts = <<>> /\ phase # "idle" /\ B >= 1)
        => /\ NumChunks = 0
           /\ tokenizerCalls = <<>> /\ sessionCalls = <<>>
           /\ phase \in {"joined", "done"} =>
                transformResult = Succeeded(<<>>)
           /\ phase = "done" => embedResult = Succeeded(<<>>)

\* embed has returned for an empty list.
C6_Witness == texts = <<>> /\ phase = "done" /\ B >= 1 /\ embedResult.kind = "ok"

\* C7: for B >= 1 (256 when batch_size is None) the chunks are ceil(N/B)
\* many, each a non-empty run of consecutive positions of at most B texts,
\* which put end to end are 1..N; each chunk is tokenized at most once and
\* run at most once, and exactly once when transform returned Ok.
C7_BatchPartition ==
    (phase # "idle" /\ B >= 1)
        => /\ batch_size = <<>> => B = 256
           /\ NumChunks * B >= N
           /\ NumChunks > 0 => (NumChunks - 1) * B < N
           /\ \A k \in 1..NumChunks :
                /\ Len(chunks[k]) \in 1..B
                /\ \A i \in 1..(Len(chunks[k]) - 1) : chunks[k][i + 1] = chunks[k][i] + 1
                /\ tokenizerCalls[k] <= 1
                /\ Len(sessionCalls[k]) <= 1
           /\ Flatten(chunks) = [i \in 1..N |-> i]
           /\ transformResult.kind = "ok" =>
                \A k \in 1..NumChunks :
                    tokenizerCalls[k] = 1 /\ Len(sessionCalls[k]) = 1

\* A successful transform of three texts in chunks of two: the last chunk is
\* the shorter one.
C7_Witness ==
    /\ transformResult.kind = "ok"
    /\ N = 3 /\ batch_size = <<2>>
    /\ NumChunks = 2 /\ Len(chunks[2]) = 1

\* C10: every session.run made passes input_ids and attention_mask, and
\* token_type_ids exactly when the graph of the session declares it; the
\* flag deciding it is the one computed at construction.
C10_TokenTypeIds ==
    /\ need_token_type_ids = ("token_type_ids" \in sessionInputs)
    /\ \A k \in 1..NumChunks : \A c \in 1..Len(sessionCalls[k]) :
          /\ {"input_ids", "attention_mask"} \subseteq sessionCalls[k][c]
          /\ sessionCalls[k][c] \subseteq {"input_ids", "attention_mask", "token_type_ids"}
          /\ "token_type_ids" \in sessionCalls[k][c] <=> "token_type_ids" \in sessionInputs

\* Two chunks have been run, for a graph that declares no token_type_ids.
C10_Witness ==
    /\ NumChunks >= 2
    /\ Len(sessionCalls[1]) = 1 /\ Len(sessionCalls[2]) = 1
    /\ "token_type_ids" \notin sessionInputs

\* The output the default precedence selects for the batch of chunk k.
Selected(k) == SelectOutput(batchOutput[k].session_outputs, OUTPUT_TYPE_PRECENDENCE)

\* The processing of the batch of chunk k failed: its inference call
\* returned an error, or its outputs cannot be turned into embeddings (no
\* output selected, pooling failed, unsupported rank).
BatchFailed(k) ==
    \/ pc[k] = "failed" /\ failure[k] = "InferenceError"
    \/ /\ pc[k] = "done"
       /\ BatchEmbeddings(batchOutput[k], OUTPUT_TYPE_PRECENDENCE, pooling).kind = "err"

\* C2 as claimed: once embed has returned and the processing of some batch
\* failed, embed returned an error and no embeddings, and so did transform
\* when the failure was a worker's.
C2_FailFast ==
    (phase = "done" /\ \E k \in 1..NumChunks : BatchFailed(k))
        => /\ embedResult.kind = "err"
           /\ embedResult.val = <<>>
           /\ FailedChunks # {} =>
                transformResult.kind = "err" /\ transformResult.val = <<>>

\* C2 without the tokenizer's failures: once embed has returned and the
\* processing of some batch failed, no embeddings were returned, and the call
\* returned an error unless a worker panicked on a tokenizer failure.
C2_FailFastUnlessPanic ==
    (phase = "done" /\ \E k \in 1..NumChunks : BatchFailed(k))
        => /\ embedResult.kind \in {"err", "panic"}
           /\ embedResult.val = <<>>
           /\ PanickedChunks = {} => embedResult.kind = "err"
           /\ FailedChunks # {} =>
                /\ transformResult.kind \in {"err", "panic"}
                /\ transformResult.val = <<>>
                /\ PanickedChunks = {} => transformResult.kind = "err"

\* embed has returned after one batch failed and another batch's inference
\* succeeded.
C2_Witness ==
    /\ phase = "done"
    /\ \E k, j \in 1..NumChunks : BatchFailed(k) /\ pc[j] = "done" /\ ~BatchFailed(j)

\* C3: with a tokenizer that pads to max_length, when embed(texts, Some(1))
\* and then embed(texts, Some(texts.len())) both returned Ok, they returned
\* the same vector at every position.
C3_BatchSizeInvariance ==
    ( /\ phase = "done" /\ embedResult.kind = "ok" /\ batch_size = <<N>>
      /\ prev.made /\ prev.result.kind = "ok" /\ prev.batch_size = <<1>>
      /\ padding = "Fixed" )
        => /\ Len(embedResult.val) = Len(prev.result.val)
           /\ \A i \in 1..N : embedResult.val[i] = prev.result.val[i]

\* Both calls returned Ok for three texts, not all the same.
C3_Witness ==
    /\ phase = "done" /\ embedResult.kind = "ok" /\ batch_size = <<N>>
    /\ prev.made /\ prev.result.kind = "ok" /\ prev.batch_size = <<1>>
    /\ N = 3 /\ texts[1] # texts[2]
    /\ NumChunks = 1

\* The outputs of the session are exactly sentence_embedding and last_hidden_state.
BothOutputs == DOMAIN outputDecl = {"sentence_embedding", "last_hidden_state"}

\* C4 as amended: with outputs {sentence_embedding: X, last_hidden_state: Y}
\* the default precedence selects Y for every batch, and embed returns the
\* embeddings made from Y.
C4_SelectsLastHiddenState ==
    (BothOutputs /\ phase \in {"joined", "done"} /\ transformResult.kind = "ok")
        => /\ \A k \in 1..NumChunks : Selected(k) = [ok |-> TRUE, name |-> "last_hidden_state"]
           /\ phase = "done" =>
                embedResult = TransformerWithPrecedence(<<ByName("last_hidden_state")>>,
                                                        pooling, transformResult.val)

\* embed returned embeddings for a session with both outputs.
C4_Witness == BothOutputs /\ EmbedOk /\ N >= 1

\* C4 as claimed: with outputs {sentence_embedding: X, last_hidden_state: Y}
\* the default precedence selects X for every batch, and embed returns the
\* embeddings made from X.
C4_SelectsSentenceEmbedding ==
    (BothOutputs /\ phase \in {"joined", "done"} /\ transformResult.kind = "ok")
        => /\ \A k \in 1..NumChunks : Selected(k) = [ok |-> TRUE, name |-> "sentence_embedding"]
           /\ phase = "done" =>
                embedResult = TransformerWithPrecedence(<<ByName("sentence_embedding")>>,
                                                        pooling, transformResult.val)

\* C5 as claimed: when the tokenizer failed on a chunk, transform and embed
\* have returned a TokenizationError.
C5_TokenizationError ==
    (phase = "done" /\ PanickedChunks # {})
        => /\ transformResult = Failed("TokenizationError")
           /\ embedResult = Failed("TokenizationError")

\* The tokenizer failed on one chunk of a call that has returned.
C5_Witness == phase = "done" /\ PanickedChunks # {} /\ NumChunks >= 2

\* C8 as claimed: once the tensors of a chunk have been built or refused, a
\* chunk whose encodings differ in length was refused with a ShapeError and no
\* session.run was made for it, and a chunk whose encodings have one length
\* has row r of each tensor equal to the r-th encoding's values.
C8_ShapeCheck ==
    \A k \in 1..NumChunks :
        pc[k] \in {"built", "done", "failed"}
            => IF EqualLengths(k)
               THEN /\ tensors[k] # <<>>
                    /\ \A r \in 1..Len(chunks[k]) :
                          /\ tensors[k].input_ids[r] = encodings[k][r].ids
                          /\ tensors[k].attention_mask[r] = encodings[k][r].attention_mask
                          /\ tensors[k].token_type_ids[r] = encodings[k][r].type_ids
               ELSE /\ pc[k] = "failed" /\ failure[k] = "ShapeError"
                    /\ sessionCalls[k] = <<>>

\* The tensors of a chunk whose encodings differ in length have been built.
C8_Witness == \E k \in 1..NumChunks : pc[k] = "built" /\ ~EqualLengths(k)

\* C9: once embed has returned after a successful transform, for every batch:
\* if the selected tensor has rank 3 and the pooling mode is Cls or absent,
\* the embedding of row r is the normalised token 0 of row r and of no other
\* token; if it has rank 2, it is the normalised row r; if it has any other
\* rank, embed returned an error.
C9_ClsSelection ==
    (phase = "done" /\ transformResult.kind = "ok")
        => \A k \in 1..NumChunks :
              Selected(k).ok =>
                LET tensor == batchOutput[k].session_outputs[Selected(k).name]
                IN  CASE tensor.rank = 3 /\ pooling \in {"Cls", "Absent"} ->
                           /\ embedResult.kind = "ok"
                           /\ \A r \in 1..Len(chunks[k]) :
                                 /\ embedResult.val[chunks[k][r]] = Normalize(tensor.data[r][1])
                                 /\ \A t \in 2..Len(tensor.data[r]) :
                                       embedResult.val[chunks[k][r]] # Normalize(tensor.data[r][t])
                      [] tensor.rank = 2 ->
                           /\ embedResult.kind = "ok"
                           /\ \A r \in 1..Len(chunks[k]) :
                                 embedResult.val[chunks[k][r]] = Normalize(tensor.data[r])
                      [] tensor.rank \notin {2, 3} -> embedResult.kind = "err"
                      [] OTHER -> TRUE

\* embed returned the CLS embeddings of two chunks of rank-3 outputs with
\* several tokens a row, no pooling mode given.
C9_Witness ==
    /\ EmbedOk /\ NumChunks = 2 /\ pooling = "Absent"
    /\ \A k \in 1..NumChunks :
          /\ Selected(k).ok
          /\ batchOutput[k].session_outputs[Selected(k).name].rank = 3
          /\ Len(batchOutput[k].session_outputs[Selected(k).name].data[1]) >= 2

====
